---- MODULE Spec2Model ----
(***************************************************************************)
(* JJS (Juce Job System): the job pipeline of JobSystem.h (input FIFO,     *)
(* priority queue, thread pool, progress and completion FIFOs, flush and   *)
(* stop) and the scope-tracked callback registry of                        *)
(* ScopeTrackedFunctions.h.                                                *)
(***************************************************************************)
EXTENDS Integers, Sequences, FiniteSets, TLC

\* ------------------------------------------------------------------ bounds
\* Jobs a producer submits in one run of the general specification.
MaxJobs == 2
\* Items one LockFreeFifo holds in the general specification (2048 slots in
\* the program).
FifoCap == 2
\* Largest thread count the pool is constructed with.
MaxThreads == 2
\* flush()/stopSystem() calls in one run.
MaxCtlCalls == 2
\* Jobs submitted in a run that has a thread calling flush()/stopSystem().
MaxControlJobs == 1

\* Containers, scopes and add() calls of the callback registry.
NumContainers == 2
NumScopes == 2
MaxFns == 3

\* Jobs submitted to a channel in one run.
MaxChannelJobs == 1
\* Jobs constructed, and triggerCallbacks calls made, in a run with several
\* producer threads.
MaxQueueJobs == 2
MaxTriggerCalls == 2
\* Slots of the LockFreeFifo modelled slot by slot, and push calls made on it.
RingSize == 3
MaxPushes == 4

\* The threads that call pushJob.
Producers == {"p1", "p2"}

Containers == 1..NumContainers
Scopes == 1..NumScopes
\* Argument values a trigger passes on.
ArgValues == {0, 1}

\* The scenario of four jobs A, B, C (Normal), D (Urgent) on a pool of one.
ScenarioJobs == <<"Normal", "Normal", "Normal", "Urgent">>

JobIdSpace == Len(ScenarioJobs)
JobIds == 1..JobIdSpace

\* Job::Priority, Normal < Urgent as enumerators.
PriorityValue(p) == IF p = "Urgent" THEN 1 ELSE 0
Priorities == {"Normal", "Urgent"}

VARIABLES
    \* ---- JobSystem construction parameters
    numThreads,            \* threadPool.getNumThreads()
    fifoCap,               \* items a LockFreeFifo accepts before push fails
    jobLimit,              \* jobs the producer submits in this run
    \* ---- Job objects (the fields of a destroyed job are reset)
    nextJob,               \* jobs constructed so far
    priority,              \* Job::priority
    address,               \* the Job's heap address (what a Job* compares by)
    queuePosition,         \* Job::queuePosition
    hasProgress,           \* Job::scopedProgressCallbacks != nullptr
    callback,              \* Job::callback: is it set, and the container it triggers
    scopedCallbacks,       \* Job::scopedCallbacks (0: nullptr)
    \* ---- JobSystem members
    inputJobs,             \* LockFreeFifo<unique_ptr<Job>>
    prioritizedJobs,       \* JobQueue (a set; its order is the comparator's)
    queueCounter,
    pool,                  \* threadPool: job -> "none"|"queued"|"action"|"checked"
    progressCallbackFIFO,
    finishedJobs,
    abort,
    threadRunning,         \* the scheduler juce::Thread runs
    timerRunning,          \* the juce::Timer is started
    \* ---- the thread calling flush()/stopSystem()
    ctl,                   \* [op, pc, waitFor]
    ctlCalls,
    \* ---- observations
    invoked,               \* {[job, kind, thread]}: callbacks the last step ran
    atFlush,               \* job -> where it was when flush() was last called
    flushReturned,         \* that flush() has returned
    sysStopped,            \* "no" | "yes" (stopSystem returned) | "again"
    \* ---- ScopedFunctionContainer / FunctionScope
    scopes,                \* ScopedFunctionContainer::scopes, per container
    containers,            \* FunctionScope::containers, per scope
    scopedFunctions,       \* FunctionScope::scopedFunctions, per scope
    scopeState,            \* scope -> "alive" | "destroying" | "destroyed"
    nextFn,                \* callbacks handed to add() so far
    lock,                  \* ScopedFunctionContainer::criticalSection owner
    trig,                  \* the triggerFunctions call in progress
    destroyPos,            \* ~FunctionScope: index into its containers
    \* ---- observations
    addCount,              \* <<container, scope>> -> add() calls
    lastTrigger,           \* the triggerFunctions call that last returned
    triggerLog,            \* what the current or last trigger invoked
    \* ---- one LockFreeFifo<unique_ptr<Job>>, slot by slot
    buffer,                \* std::vector<T> buffer (0: an empty unique_ptr)
    validStart,            \* juce::AbstractFifo read position
    validEnd,              \* juce::AbstractFifo write position
    pushes,                \* push calls made so far (each with a new job)
    dropped,               \* jobs destroyed because their push was refused
    lastCall,              \* the last call on the FIFO and what it returned
    \* ---- container lifetime
    containerState,        \* container -> "alive" | "destroyed"
    crashed,               \* a freed container was used and the process died
    \* ---- channels
    callbackMap,           \* the channel ids that have a container (its id)
    jobChannel,            \* the channel id a job was submitted with (0: none)
    \* ---- FIFO calls made outside criticalSection
    fifoCalls,             \* the push calls that have begun and not returned
    triggerCall            \* the triggerCallbacks call that last returned

registryVars == <<scopes, containers, scopedFunctions, scopeState, nextFn,
                  lock, trig, destroyPos, addCount, lastTrigger, triggerLog>>

sysParams == <<numThreads, fifoCap, jobLimit>>

ringVars == <<buffer, validStart, validEnd, pushes, dropped, lastCall>>

lifeVars == <<containerState, crashed>>

channelVars == <<callbackMap, jobChannel>>

callVars == <<fifoCalls, triggerCall>>

\* What no step of the job pipeline changes.
paramVars == <<sysParams, registryVars, ringVars, lifeVars, channelVars,
               callVars>>
jobVars == <<nextJob, priority, address, queuePosition, hasProgress, callback,
            scopedCallbacks>>
queueVars == <<inputJobs, prioritizedJobs, queueCounter>>
runVars == <<threadRunning, timerRunning>>
flushObs == <<atFlush, flushReturned>>

pipeVars == <<sysParams, ringVars, lifeVars, channelVars, callVars, jobVars,
              queueVars, pool, progressCallbackFIFO,
              finishedJobs, abort, runVars, ctl, ctlCalls, invoked, flushObs,
              sysStopped>>

vars == <<pipeVars, registryVars>>

\* The variables of the job pipeline other than the slot-by-slot FIFO.
pipeRest == <<jobVars, queueVars, pool, progressCallbackFIFO, finishedJobs,
              abort, runVars, ctl, ctlCalls, invoked, flushObs, sysStopped>>

nonRingVars == <<sysParams, lifeVars, channelVars, callVars, pipeRest,
                 registryVars>>

\* ----------------------------------------------------------- LockFreeFifo
\* push: false (and nothing stored) when no slot is free, else appended.
FifoAccepts(q) == Len(q) < fifoCap
FifoPush(q, item) == IF FifoAccepts(q) THEN Append(q, item) ELSE q

RECURSIVE SeqToSet(_)
SeqToSet(s) == IF s = <<>> THEN {} ELSE {Head(s)} \cup SeqToSet(Tail(s))

\* ------------------------------------------------------------------- Job
\* Job::operator<: the order the priority queue is documented to use.
JobLess(a, b) ==
    IF priority[a] = priority[b]
    THEN queuePosition[a] > queuePosition[b]
    ELSE PriorityValue(priority[a]) < PriorityValue(priority[b])

\* std::priority_queue<Job*>: its comparator is std::less<Job*>, which orders
\* the pointers themselves.
JobPtrLess(a, b) == address[a] < address[b]

\* JobQueue::popJob: top() of the heap, the greatest element of the comparator.
PopJob(pq) == CHOOSE j \in pq : \A k \in pq \ {j} : ~JobPtrLess(j, k)

\* Mutant: getNumJobs() counting only the jobs no pool thread has taken yet.
NumQueuedPoolJobs == Cardinality({j \in JobIds : pool[j] = "queued"})

\* threadPool.getNumJobs(): the jobs queued or running in the pool.
NumPoolJobs == Cardinality({j \in JobIds : pool[j] # "none"})

\* Where a job is in the pipe ("none": not constructed yet, or destroyed).
Place(j) ==
    IF j \in SeqToSet(inputJobs) \cup prioritizedJobs THEN "pending"
    ELSE IF pool[j] # "none" THEN pool[j]
    ELSE IF j \in SeqToSet(finishedJobs) THEN "finished"
    ELSE "none"

Live == {j \in JobIds : Place(j) # "none"}

\* Job::callback: an empty std::function, a function of the caller, or the
\* closure of JobSystem::triggerCallbacks, which triggers container c.
NoCallback == [set |-> FALSE, triggers |-> 0]
PlainCallback == [set |-> TRUE, triggers |-> 0]
TriggerClosure(c) == [set |-> TRUE, triggers |-> c]

\* The jobs of S are destroyed: their fields are gone.
ReleaseJobs(S) ==
    /\ priority' = [j \in JobIds |-> IF j \in S THEN "Normal" ELSE priority[j]]
    /\ address' = [j \in JobIds |-> IF j \in S THEN 0 ELSE address[j]]
    /\ queuePosition' = [j \in JobIds |-> IF j \in S THEN 0 ELSE queuePosition[j]]
    /\ hasProgress' = [j \in JobIds |-> IF j \in S THEN FALSE ELSE hasProgress[j]]
    /\ callback' = [j \in JobIds |-> IF j \in S THEN NoCallback ELSE callback[j]]
    /\ scopedCallbacks' = [j \in JobIds |-> IF j \in S THEN 0 ELSE scopedCallbacks[j]]
    /\ atFlush' = [j \in JobIds |-> IF j \in S THEN "none" ELSE atFlush[j]]

\* ------------------------------------------------------------------ Init
NoTrigger == [container |-> 0, args |-> 0]
NotTriggering == [container |-> 0, args |-> 0, si |-> 0, fi |-> 0]

\* Containers and scopes as constructed: nothing registered.
RegistryInit ==
    /\ scopes = [c \in Containers |-> <<>>]
    /\ containers = [s \in Scopes |-> <<>>]
    /\ scopedFunctions = [s \in Scopes |-> <<>>]
    /\ scopeState = [s \in Scopes |-> "alive"]
    /\ nextFn = 0
    /\ lock = [c \in Containers |-> "free"]
    /\ trig = NotTriggering
    /\ destroyPos = [s \in Scopes |-> 0]
    /\ addCount = [c \in Containers, s \in Scopes |-> 0]
    /\ lastTrigger = NoTrigger
    /\ triggerLog = <<>>

NoCall == [op |-> "none", item |-> 0, result |-> 0]

\* LockFreeFifo(size): fifo(size), buffer(size) of empty handles.
RingInit ==
    /\ buffer = [i \in 0..(RingSize - 1) |-> 0]
    /\ validStart = 0
    /\ validEnd = 0
    /\ pushes = 0
    /\ dropped = {}
    /\ lastCall = NoCall

\* No triggerCallbacks call has been made.
NoTriggerCall == [n |-> 0, channel |-> 0, thread |-> "none"]

PipeInit(threads, cap, limit) ==
    /\ numThreads = threads
    /\ fifoCap = cap
    /\ jobLimit = limit
    /\ nextJob = 0
    /\ priority = [j \in JobIds |-> "Normal"]
    /\ address = [j \in JobIds |-> 0]
    /\ queuePosition = [j \in JobIds |-> 0]
    /\ hasProgress = [j \in JobIds |-> FALSE]
    /\ callback = [j \in JobIds |-> NoCallback]
    /\ scopedCallbacks = [j \in JobIds |-> 0]
    /\ inputJobs = <<>>
    /\ prioritizedJobs = {}
    /\ queueCounter = 0
    /\ pool = [j \in JobIds |-> "none"]
    /\ progressCallbackFIFO = <<>>
    /\ finishedJobs = <<>>
    /\ abort = FALSE
    /\ threadRunning = TRUE
    /\ timerRunning = TRUE
    /\ ctl = [op |-> "none", pc |-> "idle", waitFor |-> {}]
    /\ ctlCalls = 0
    /\ invoked = {}
    /\ atFlush = [j \in JobIds |-> "none"]
    /\ flushReturned = FALSE
    /\ sysStopped = "no"
    /\ RegistryInit
    /\ RingInit
    /\ containerState = [c \in Containers |-> "alive"]
    /\ crashed = FALSE
    /\ callbackMap = {}
    /\ jobChannel = [j \in JobIds |-> 0]
    /\ fifoCalls = {}
    /\ triggerCall = NoTriggerCall

Init == \E t \in 1..MaxThreads : PipeInit(t, FifoCap, MaxJobs)

\* ------------------------------------------------------------- producer
\* JobSystem::pushJob: link the job, run jobSetup, push it on the input FIFO
\* (a failed push destroys the job with the unique_ptr).
PushJobLinked(prio, addr, prog, cb, callbacks) ==
    /\ nextJob < jobLimit
    /\ addr \notin {address[j] : j \in Live}
    /\ nextJob' = nextJob + 1
    /\ IF FifoAccepts(inputJobs)
       THEN /\ priority' = [priority EXCEPT ![nextJob + 1] = prio]
            /\ address' = [address EXCEPT ![nextJob + 1] = addr]
            /\ hasProgress' = [hasProgress EXCEPT ![nextJob + 1] = prog]
            /\ callback' = [callback EXCEPT ![nextJob + 1] = cb]
            /\ scopedCallbacks' = [scopedCallbacks EXCEPT ![nextJob + 1] = callbacks]
            /\ inputJobs' = Append(inputJobs, nextJob + 1)
       ELSE UNCHANGED <<priority, address, hasProgress, callback,
                        scopedCallbacks, inputJobs>>
    /\ invoked' = {}
    /\ UNCHANGED <<paramVars, queuePosition, prioritizedJobs, queueCounter,
                   pool, progressCallbackFIFO, finishedJobs, abort, runVars,
                   ctl, ctlCalls, flushObs, sysStopped>>

\* A job with a callback function and no callback container.
PushJobBody(prio, addr, prog) == PushJobLinked(prio, addr, prog, PlainCallback, 0)

PushJob ==
    \E prio \in Priorities, addr \in 1..jobLimit, prog \in BOOLEAN :
        PushJobBody(prio, addr, prog)

\* ------------------------------------------------------------ scheduler
\* Mutant: the drain loop without the ++ of queueCounter.
DrainedPositionsNoIncrement ==
    [j \in JobIds |->
        IF \E i \in 1..Len(inputJobs) : inputJobs[i] = j
        THEN queueCounter ELSE queuePosition[j]]

\* The drain loop of processJobs: every job of the input FIFO gets the next
\* queuePosition and enters the priority queue.
DrainedPositions ==
    [j \in JobIds |->
        IF \E i \in 1..Len(inputJobs) : inputJobs[i] = j
        THEN queueCounter + (CHOOSE i \in 1..Len(inputJobs) : inputJobs[i] = j) - 1
        ELSE queuePosition[j]]

\* JobSystem::processJobs, one pass of run().
ProcessJobs ==
    /\ threadRunning
    /\ LET pq == prioritizedJobs \cup SeqToSet(inputJobs)
           counter == queueCounter + Len(inputJobs)
       IN  /\ queuePosition' = DrainedPositions
           /\ inputJobs' = <<>>
           /\ IF NumPoolJobs >= numThreads \/ pq = {}
              THEN /\ prioritizedJobs' = pq
                   /\ queueCounter' = counter
                   /\ pool' = pool
              ELSE LET job == PopJob(pq)
                   IN  /\ prioritizedJobs' = pq \ {job}
                       /\ pool' = [pool EXCEPT ![job] = "queued"]
                       /\ queueCounter' = IF pq \ {job} = {} THEN 0 ELSE counter
    /\ invoked' = {}
    /\ UNCHANGED <<paramVars, nextJob, priority, address, hasProgress,
                   callback, scopedCallbacks,
                   progressCallbackFIFO, finishedJobs, abort, runVars, ctl,
                   ctlCalls, flushObs, sysStopped>>

\* ------------------------------------------- what a delivery invokes
\* Mutant: triggerFunctions without the test of the entry's container.
MatchesAnyContainer(e, c) == TRUE

\* triggerFunctions line 86: scopedFunction.container == this.
Matches(e, c) == e.container = c

\* The inner loop of triggerFunctions over one scope's entries.
RECURSIVE InvokeEntries(_, _, _, _)
InvokeEntries(c, s, entries, a) ==
    IF entries = <<>> THEN <<>>
    ELSE (IF Matches(Head(entries), c)
          THEN <<[scope |-> s, function |-> Head(entries).function, args |-> a]>>
          ELSE <<>>) \o InvokeEntries(c, s, Tail(entries), a)

\* The outer loop of triggerFunctions over the container's scopes.
RECURSIVE TriggerInvocations(_, _, _)
TriggerInvocations(c, list, a) ==
    IF list = <<>> THEN <<>>
    ELSE InvokeEntries(c, Head(list), scopedFunctions[Head(list)], a)
             \o TriggerInvocations(c, Tail(list), a)

\* Mutant: executeCallback triggering the container before the callback.
ExecuteCallbackScopedFirst(j) ==
    <<"jobCallback">>
        \o (IF scopedCallbacks[j] # 0 THEN <<"scopedCallbacks">> ELSE <<>>)
        \o (IF callback[j].set THEN <<"callback">> ELSE <<>>)

\* Job::executeCallback, lines 62-64: what it calls, in order.
ExecuteCallback(j) ==
    <<"jobCallback">>
        \o (IF callback[j].set THEN <<"callback">> ELSE <<>>)
        \o (IF scopedCallbacks[j] # 0 THEN <<"scopedCallbacks">> ELSE <<>>)

\* The registered functions those calls invoke through triggerFunctions():
\* the closure of triggerCallbacks first, the job's own container second.
CallbackInvocations(j) ==
    (IF callback[j].triggers # 0
     THEN TriggerInvocations(callback[j].triggers, scopes[callback[j].triggers], 0)
     ELSE <<>>)
        \o (IF scopedCallbacks[j] # 0
            THEN TriggerInvocations(scopedCallbacks[j], scopes[scopedCallbacks[j]], 0)
            ELSE <<>>)

\* --------------------------------------------------------------- workers
\* The closure Job::executeUpdate(0) hands to sendUpdateFn: it captures the
\* progress container and the value 0, nothing of the job.
ProgressClosure == [container |-> "progress", progress |-> 0]

\* A pool thread takes the job and enters Job::executeAction, whose first
\* statement is executeUpdate(0): with progress callbacks linked, a closure
\* goes onto the progress FIFO.
WorkerStart(j) ==
    /\ pool[j] = "queued"
    /\ pool' = [pool EXCEPT ![j] = "action"]
    /\ progressCallbackFIFO' =
           IF hasProgress[j] THEN FifoPush(progressCallbackFIFO, ProgressClosure)
           ELSE progressCallbackFIFO
    /\ invoked' = {}
    /\ UNCHANGED <<paramVars, jobVars, queueVars, finishedJobs, abort, runVars,
                   ctl, ctlCalls, flushObs, sysStopped>>

\* The job's action calls executeUpdate(p) while it runs.
WorkerProgress(j, p) ==
    /\ pool[j] = "action"
    /\ hasProgress[j]
    /\ progressCallbackFIFO' =
           FifoPush(progressCallbackFIFO, [container |-> "progress", progress |-> p])
    /\ invoked' = {}
    /\ UNCHANGED <<paramVars, jobVars, queueVars, pool, finishedJobs, abort,
                   runVars, ctl, ctlCalls, flushObs, sysStopped>>

\* Mutant: the worker lambda returns after executeAction whatever abort holds.
WorkerFinishDropsJob(j) ==
    /\ pool[j] = "action"
    /\ pool' = [pool EXCEPT ![j] = "none"]
    /\ ReleaseJobs({j})
    /\ invoked' = {}
    /\ UNCHANGED <<paramVars, nextJob, queueVars, progressCallbackFIFO,
                   finishedJobs, abort, runVars, ctl, ctlCalls, flushReturned,
                   sysStopped>>

\* executeAction returns and the worker lambda reads abort: set, it returns and
\* the job is dropped; clear, it goes on to the push.
WorkerFinish(j) ==
    /\ pool[j] = "action"
    /\ IF abort
       THEN /\ pool' = [pool EXCEPT ![j] = "none"]
            /\ ReleaseJobs({j})
       ELSE /\ pool' = [pool EXCEPT ![j] = "checked"]
            /\ UNCHANGED <<priority, address, queuePosition, hasProgress,
                           callback, scopedCallbacks, atFlush>>
    /\ invoked' = {}
    /\ UNCHANGED <<paramVars, nextJob, queueVars, progressCallbackFIFO,
                   finishedJobs, abort, runVars, ctl, ctlCalls, flushReturned,
                   sysStopped>>

\* Mutant: the worker runs the job's executeCallback itself instead of handing
\* the job to the message thread.
WorkerPushRunsCallback(j) ==
    /\ pool[j] = "checked"
    /\ pool' = [pool EXCEPT ![j] = "none"]
    /\ ReleaseJobs({j})
    /\ invoked' = {[job |-> j, kind |-> "callback", thread |-> "worker",
                     at |-> 1, parts |-> ExecuteCallback(j),
                     fns |-> CallbackInvocations(j), value |-> 0]}
    /\ UNCHANGED <<paramVars, nextJob, queueVars, progressCallbackFIFO,
                   finishedJobs, abort, runVars, ctl, ctlCalls, flushReturned,
                   sysStopped>>

\* Under criticalSection the worker pushes the job on finishedJobs (a failed
\* push drops it) and the lambda returns.
WorkerPush(j) ==
    /\ pool[j] = "checked"
    /\ pool' = [pool EXCEPT ![j] = "none"]
    /\ IF FifoAccepts(finishedJobs)
       THEN /\ finishedJobs' = Append(finishedJobs, j)
            /\ UNCHANGED <<priority, address, queuePosition, hasProgress,
                           callback, scopedCallbacks, atFlush>>
       ELSE /\ finishedJobs' = finishedJobs
            /\ ReleaseJobs({j})
    /\ invoked' = {}
    /\ UNCHANGED <<paramVars, nextJob, queueVars, progressCallbackFIFO, abort,
                   runVars, ctl, ctlCalls, flushReturned, sysStopped>>

\* -------------------------------------------------------------- consumer
\* Job::executeCallback of each job of q, as run by thread `thread`: they run
\* after the progress closures, in the order of q.
CallbackEntries(q, thread) ==
    {[job |-> q[i], kind |-> "callback", thread |-> thread,
      at |-> Len(progressCallbackFIFO) + i, parts |-> ExecuteCallback(q[i]),
      fns |-> CallbackInvocations(q[i]), value |-> 0] : i \in 1..Len(q)}

\* Each progress closure of q (it belongs to no job), as run by `thread`.
ProgressEntries(q, thread) ==
    {[job |-> 0, kind |-> "progress", thread |-> thread,
      at |-> i, parts |-> <<"progressCallbacks">>,
      fns |-> <<>>, value |-> q[i].progress] : i \in 1..Len(q)}

\* JobSystem::timerCallback on the message thread: every progress closure,
\* then every finished job's executeCallback.
TimerCallback ==
    /\ timerRunning
    /\ invoked' = ProgressEntries(progressCallbackFIFO, "message")
                    \cup CallbackEntries(finishedJobs, "message")
    /\ progressCallbackFIFO' = <<>>
    /\ finishedJobs' = <<>>
    /\ ReleaseJobs(SeqToSet(finishedJobs))
    /\ UNCHANGED <<paramVars, nextJob, queueVars, pool, abort, runVars, ctl,
                   ctlCalls, flushReturned, sysStopped>>

\* ------------------------------------------------------ flush / stopSystem
\* flush() lines 72-73: abort.store(true), then the first half of
\* threadPool.removeAllJobs(true, 1000): the jobs no pool thread has taken are
\* removed and deleted, the running ones are waited for.
FlushStoreAbort ==
    /\ abort' = TRUE
    /\ flushReturned' = FALSE
    /\ pool' = [j \in JobIds |-> IF pool[j] = "queued" THEN "none" ELSE pool[j]]
    /\ LET removed == {j \in JobIds : pool[j] = "queued"}
       IN  /\ priority' = [j \in JobIds |-> IF j \in removed THEN "Normal" ELSE priority[j]]
           /\ address' = [j \in JobIds |-> IF j \in removed THEN 0 ELSE address[j]]
           /\ queuePosition' = [j \in JobIds |-> IF j \in removed THEN 0 ELSE queuePosition[j]]
           /\ hasProgress' = [j \in JobIds |-> IF j \in removed THEN FALSE ELSE hasProgress[j]]
           /\ callback' = [j \in JobIds |-> IF j \in removed THEN NoCallback ELSE callback[j]]
           /\ scopedCallbacks' = [j \in JobIds |-> IF j \in removed THEN 0 ELSE scopedCallbacks[j]]
           /\ atFlush' = [j \in JobIds |->
                  IF Place(j) \in {"pending", "action", "checked"} THEN Place(j) ELSE "none"]

WaitFor == {j \in JobIds : pool[j] \in {"action", "checked"}}

\* flush() called from outside stopSystem().
FlushBegin ==
    /\ ctl.pc = "idle"
    /\ ctlCalls < MaxCtlCalls
    /\ ctlCalls' = ctlCalls + 1
    /\ FlushStoreAbort
    /\ ctl' = [op |-> "flush", pc |-> "wait", waitFor |-> WaitFor]
    /\ sysStopped' = IF sysStopped = "no" THEN "no" ELSE "again"
    /\ invoked' = {}
    /\ UNCHANGED <<paramVars, nextJob, queueVars, progressCallbackFIFO,
                   finishedJobs, runVars>>

\* stopSystem() lines 82-84: stopThread(1000) ends the scheduler thread (it is
\* killed if it does not exit in time), stopTimer() stops the drain timer,
\* then flush() is entered.
StopBegin ==
    /\ ctl.pc = "idle"
    /\ ctlCalls < MaxCtlCalls
    /\ ctlCalls' = ctlCalls + 1
    /\ threadRunning' = FALSE
    /\ timerRunning' = FALSE
    /\ FlushStoreAbort
    /\ ctl' = [op |-> "stop", pc |-> "wait", waitFor |-> WaitFor]
    /\ sysStopped' = IF sysStopped = "no" THEN "no" ELSE "again"
    /\ invoked' = {}
    /\ UNCHANGED <<paramVars, nextJob, queueVars, progressCallbackFIFO,
                   finishedJobs>>

StillRunning == {j \in ctl.waitFor : pool[j] # "none"}

\* flush() lines 74-75 once removeAllJobs has returned: finishedJobs.clear()
\* (the handles it held become unreachable), abort.store(false), return.
FlushFinish ==
    /\ finishedJobs' = <<>>
    /\ ReleaseJobs(SeqToSet(finishedJobs))
    /\ abort' = FALSE
    /\ flushReturned' = TRUE
    /\ ctl' = IF ctl.op = "stop" THEN [op |-> "stop", pc |-> "stopabort", waitFor |-> {}]
              ELSE [op |-> "none", pc |-> "idle", waitFor |-> {}]
    /\ invoked' = {}
    /\ UNCHANGED <<paramVars, nextJob, queueVars, pool, progressCallbackFIFO,
                   runVars, ctlCalls, sysStopped>>

\* removeAllJobs returns true: every job it waited for has finished.
RemoveAllJobsDone ==
    /\ ctl.pc = "wait"
    /\ StillRunning = {}
    /\ FlushFinish

\* removeAllJobs returns false: its 1000 ms are over and a job still runs.
RemoveAllJobsTimeout ==
    /\ ctl.pc = "wait"
    /\ StillRunning # {}
    /\ FlushFinish

\* Mutant: stopSystem() returns without its last abort.store(true).
StopEndLeavesAbortClear ==
    /\ ctl.pc = "stopabort"
    /\ sysStopped' = "yes"
    /\ ctl' = [op |-> "none", pc |-> "idle", waitFor |-> {}]
    /\ invoked' = {}
    /\ UNCHANGED <<paramVars, jobVars, queueVars, pool, progressCallbackFIFO,
                   finishedJobs, abort, runVars, ctlCalls, flushObs>>

\* stopSystem() line 85: abort.store(true), and stopSystem() returns.
StopEnd ==
    /\ ctl.pc = "stopabort"
    /\ abort' = TRUE
    /\ sysStopped' = "yes"
    /\ ctl' = [op |-> "none", pc |-> "idle", waitFor |-> {}]
    /\ invoked' = {}
    /\ UNCHANGED <<paramVars, jobVars, queueVars, pool, progressCallbackFIFO,
                   finishedJobs, runVars, ctlCalls, flushObs>>

\* ------------------------------------------------------------------ Next
\* The pipeline with nobody calling flush() or stopSystem().
Next ==
    \/ PushJob
    \/ ProcessJobs
    \/ \E j \in JobIds : WorkerStart(j)
    \/ \E j \in JobIds : WorkerFinish(j)
    \/ \E j \in JobIds : WorkerPush(j)
    \/ TimerCallback

Spec == Init /\ [][Next]_vars

\* The pipeline with a thread that calls flush() and stopSystem().
InitControl == \E t \in 1..MaxThreads : PipeInit(t, FifoCap, MaxControlJobs)

NextControl ==
    \/ PushJob
    \/ ProcessJobs
    \/ \E j \in JobIds : WorkerStart(j)
    \/ \E j \in JobIds : WorkerFinish(j)
    \/ \E j \in JobIds : WorkerPush(j)
    \/ TimerCallback
    \/ FlushBegin
    \/ StopBegin
    \/ RemoveAllJobsDone
    \/ RemoveAllJobsTimeout
    \/ StopEnd

SpecControl == InitControl /\ [][NextControl]_vars

\* The scenario: a pool of one thread, FIFOs that never fill, and a producer
\* that submits A, B, C (Normal) and then D (Urgent).
InitScenario == PipeInit(1, Len(ScenarioJobs), Len(ScenarioJobs))

PushScenarioJob ==
    \E addr \in 1..jobLimit :
        /\ nextJob < Len(ScenarioJobs)
        /\ PushJobBody(ScenarioJobs[nextJob + 1], addr, FALSE)

NextScenario ==
    \/ PushScenarioJob
    \/ ProcessJobs
    \/ \E j \in JobIds : WorkerStart(j)
    \/ \E j \in JobIds : WorkerFinish(j)
    \/ \E j \in JobIds : WorkerPush(j)
    \/ TimerCallback

SpecScenario == InitScenario /\ [][NextScenario]_vars

\* The threads of the pipeline scheduled fairly: run() loops on
\* processJobs until the thread is told to exit, a pool thread that has a job
\* takes it, an action that was started returns, and the 2 ms timer keeps
\* calling timerCallback.
Fairness ==
    /\ WF_vars(ProcessJobs)
    /\ WF_vars(TimerCallback)
    /\ \A j \in JobIds :
          /\ WF_vars(WorkerStart(j))
          /\ WF_vars(WorkerFinish(j))
          /\ WF_vars(WorkerPush(j))

\* The scenario of four jobs on a pool of one, scheduled fairly.
SpecFair == InitScenario /\ [][NextScenario]_vars /\ Fairness

\* The pipeline seen from the drain step: jobs with and without a callback
\* function and a callback container, whose actions report progress. (The
\* jobs are Normal, linked to a progress container, and each takes the lowest
\* free address.)
InitDrain == PipeInit(MaxThreads, FifoCap, MaxJobs)

PushDrainJob ==
    \E addr \in 1..jobLimit,
       cb \in {NoCallback, PlainCallback}, callbacks \in {0, 1} :
        /\ \A a \in 1..(addr - 1) : a \in {address[j] : j \in Live}
        /\ PushJobLinked("Normal", addr, TRUE, cb, callbacks)

NextDrain ==
    \/ PushDrainJob
    \/ ProcessJobs
    \/ \E j \in JobIds : WorkerStart(j)
    \/ \E j \in JobIds, p \in ArgValues : WorkerProgress(j, p)
    \/ \E j \in JobIds : WorkerFinish(j)
    \/ \E j \in JobIds : WorkerPush(j)
    \/ TimerCallback

SpecDrain == InitDrain /\ [][NextDrain]_vars

\* ============================================ scope-tracked callbacks
\* ScopedFunctionContainer::addFunctionToScope: the callback, tagged with the
\* container, is appended to the scope's list.
AddFunctionToScope(c, s, f) ==
    [scopedFunctions EXCEPT ![s] = Append(@, [container |-> c, function |-> f])]

\* Mutant: registerContainerToScope without its std::find.
IsRegisteredNever(c, s) == FALSE

\* registerContainerToScope line 105-106: std::find(scopes, scope) != end.
IsRegistered(c, s) == \E i \in 1..Len(scopes[c]) : scopes[c][i] = s

\* ScopedFunctionContainer::add, under the container's lock.
AddBody(c, s) ==
    /\ scopeState[s] = "alive"
    /\ nextFn < MaxFns
    /\ nextFn' = nextFn + 1
    /\ scopedFunctions' = AddFunctionToScope(c, s, nextFn + 1)
    /\ IF IsRegistered(c, s)
       THEN UNCHANGED <<scopes, containers>>
       ELSE /\ containers' = [containers EXCEPT ![s] = Append(@, c)]
            /\ scopes' = [scopes EXCEPT ![c] = Append(@, s)]
    /\ addCount' = [addCount EXCEPT ![c, s] = @ + 1]

\* ScopedFunctionContainer::remove: erase(remove_if(s == scope)).
RemoveScope(list, s) == SelectSeq(list, LAMBDA x : x # s)

\* ~FunctionScope: remove(this) on each container of the scope's list, then
\* the scope's vectors are destroyed.
ScopesAfterDestroy(s) ==
    [c \in Containers |->
        IF \E i \in 1..Len(containers[s]) : containers[s][i] = c
        THEN RemoveScope(scopes[c], s) ELSE scopes[c]]

\* ---- one thread: every call runs to its end
Add(c, s) ==
    /\ AddBody(c, s)
    /\ lastTrigger' = NoTrigger
    /\ triggerLog' = <<>>
    /\ UNCHANGED <<pipeVars, scopeState, lock, trig, destroyPos>>

TriggerFunctions(c, a) ==
    /\ triggerLog' = TriggerInvocations(c, scopes[c], a)
    /\ lastTrigger' = [container |-> c, args |-> a]
    /\ UNCHANGED <<pipeVars, scopes, containers, scopedFunctions, scopeState,
                   nextFn, lock, trig, destroyPos, addCount>>

DestroyScope(s) ==
    /\ scopeState[s] = "alive"
    /\ scopes' = ScopesAfterDestroy(s)
    /\ containers' = [containers EXCEPT ![s] = <<>>]
    /\ scopedFunctions' = [scopedFunctions EXCEPT ![s] = <<>>]
    /\ scopeState' = [scopeState EXCEPT ![s] = "destroyed"]
    /\ addCount' = [c \in Containers, t \in Scopes |->
                       IF t = s THEN 0 ELSE addCount[c, t]]
    /\ lastTrigger' = NoTrigger
    /\ triggerLog' = <<>>
    /\ UNCHANGED <<pipeVars, nextFn, lock, trig, destroyPos>>

InitRegistry == PipeInit(1, FifoCap, 0)

NextRegistry ==
    \/ \E c \in Containers, s \in Scopes : Add(c, s)
    \/ \E c \in Containers, a \in ArgValues : TriggerFunctions(c, a)
    \/ \E s \in Scopes : DestroyScope(s)

SpecRegistry == InitRegistry /\ [][NextRegistry]_vars

\* ---- several threads: one triggering, one adding, one destroying scopes
\* triggerFunctions takes the container's lock.
TriggerBegin(c, a) ==
    /\ trig = NotTriggering
    /\ lock[c] = "free"
    /\ lock' = [lock EXCEPT ![c] = "trigger"]
    /\ trig' = [container |-> c, args |-> a, si |-> 1, fi |-> 1]
    /\ triggerLog' = <<>>
    /\ lastTrigger' = NoTrigger
    /\ UNCHANGED <<pipeVars, scopes, containers, scopedFunctions, scopeState,
                   nextFn, destroyPos, addCount>>

TriggerScope == scopes[trig.container][trig.si]

\* The inner loop body: one entry of the current scope, invoked if it is of
\* this container.
TriggerEntry ==
    /\ trig # NotTriggering
    /\ trig.si <= Len(scopes[trig.container])
    /\ trig.fi <= Len(scopedFunctions[TriggerScope])
    /\ LET e == scopedFunctions[TriggerScope][trig.fi]
       IN  triggerLog' =
               IF Matches(e, trig.container)
               THEN Append(triggerLog, [scope |-> TriggerScope,
                                        function |-> e.function,
                                        args |-> trig.args])
               ELSE triggerLog
    /\ trig' = [trig EXCEPT !.fi = @ + 1]
    /\ UNCHANGED <<pipeVars, scopes, containers, scopedFunctions, scopeState,
                   nextFn, lock, destroyPos, addCount, lastTrigger>>

\* The inner loop ends: on to the container's next scope.
TriggerNextScope ==
    /\ trig # NotTriggering
    /\ trig.si <= Len(scopes[trig.container])
    /\ trig.fi > Len(scopedFunctions[TriggerScope])
    /\ trig' = [trig EXCEPT !.si = @ + 1, !.fi = 1]
    /\ UNCHANGED <<pipeVars, scopes, containers, scopedFunctions, scopeState,
                   nextFn, lock, destroyPos, addCount, lastTrigger, triggerLog>>

\* The outer loop ends: the lock is released and triggerFunctions returns.
TriggerEnd ==
    /\ trig # NotTriggering
    /\ trig.si > Len(scopes[trig.container])
    /\ lock' = [lock EXCEPT ![trig.container] = "free"]
    /\ lastTrigger' = [container |-> trig.container, args |-> trig.args]
    /\ trig' = NotTriggering
    /\ UNCHANGED <<pipeVars, scopes, containers, scopedFunctions, scopeState,
                   nextFn, destroyPos, addCount, triggerLog>>

\* add() on another thread. It holds its own container's lock only: when a
\* trigger of another container is walking the entries of this scope, the
\* push_back invalidates that walk's iterator, which may then stand anywhere.
AddOnThread(c, s) ==
    /\ lock[c] = "free"
    /\ AddBody(c, s)
    /\ IF trig # NotTriggering /\ trig.si <= Len(scopes[trig.container])
          /\ TriggerScope = s
       THEN \E i \in 1..(Len(scopedFunctions[s]) + 2) :
                trig' = [trig EXCEPT !.fi = i]
       ELSE trig' = trig
    /\ UNCHANGED <<pipeVars, scopeState, lock, destroyPos, lastTrigger,
                   triggerLog>>

\* ~FunctionScope is entered.
DestroyBegin(s) ==
    /\ scopeState[s] = "alive"
    /\ scopeState' = [scopeState EXCEPT ![s] = "destroying"]
    /\ destroyPos' = [destroyPos EXCEPT ![s] = 1]
    /\ UNCHANGED <<pipeVars, scopes, containers, scopedFunctions, nextFn, lock,
                   trig, addCount, lastTrigger, triggerLog>>

\* One iteration of its loop: container->remove(this), under that
\* container's lock.
DestroyRemove(s) ==
    /\ scopeState[s] = "destroying"
    /\ destroyPos[s] <= Len(containers[s])
    /\ LET c == containers[s][destroyPos[s]]
       IN  /\ lock[c] = "free"
           /\ scopes' = [scopes EXCEPT ![c] = RemoveScope(@, s)]
    /\ destroyPos' = [destroyPos EXCEPT ![s] = @ + 1]
    /\ UNCHANGED <<pipeVars, containers, scopedFunctions, scopeState, nextFn,
                   lock, trig, addCount, lastTrigger, triggerLog>>

\* The loop is over: the scope's vectors are destroyed.
DestroyEnd(s) ==
    /\ scopeState[s] = "destroying"
    /\ destroyPos[s] > Len(containers[s])
    /\ containers' = [containers EXCEPT ![s] = <<>>]
    /\ scopedFunctions' = [scopedFunctions EXCEPT ![s] = <<>>]
    /\ scopeState' = [scopeState EXCEPT ![s] = "destroyed"]
    /\ destroyPos' = [destroyPos EXCEPT ![s] = 0]
    /\ addCount' = [c \in Containers, t \in Scopes |->
                       IF t = s THEN 0 ELSE addCount[c, t]]
    /\ UNCHANGED <<pipeVars, scopes, nextFn, lock, trig, lastTrigger,
                   triggerLog>>

NextRegistryThreads ==
    \/ \E c \in Containers, a \in ArgValues : TriggerBegin(c, a)
    \/ TriggerEntry
    \/ TriggerNextScope
    \/ TriggerEnd
    \/ \E c \in Containers, s \in Scopes : AddOnThread(c, s)
    \/ \E s \in Scopes : DestroyBegin(s)
    \/ \E s \in Scopes : DestroyRemove(s)
    \/ \E s \in Scopes : DestroyEnd(s)

SpecRegistryThreads == InitRegistry /\ [][NextRegistryThreads]_vars

\* ---- containers that are destroyed before their scopes
\* The containers of scope s's list that are destroyed already.
FreedContainersOf(s) ==
    {c \in Containers :
        /\ containerState[c] = "destroyed"
        /\ \E i \in 1..Len(containers[s]) : containers[s][i] = c}

\* add() by a caller that holds a live container.
AddToLive(c, s) ==
    /\ ~crashed
    /\ containerState[c] = "alive"
    /\ Add(c, s)

\* triggerFunctions() by a caller that holds a live container.
TriggerLive(c, a) ==
    /\ ~crashed
    /\ containerState[c] = "alive"
    /\ TriggerFunctions(c, a)

\* ScopedFunctionContainer has no destructor of its own: its scopes vector is
\* destroyed and the scopes registered with it are told nothing.
DestroyContainer(c) ==
    /\ ~crashed
    /\ containerState[c] = "alive"
    /\ containerState' = [containerState EXCEPT ![c] = "destroyed"]
    /\ scopes' = [scopes EXCEPT ![c] = <<>>]
    /\ lastTrigger' = NoTrigger
    /\ triggerLog' = <<>>
    /\ UNCHANGED <<sysParams, ringVars, channelVars, callVars, pipeRest,
                   crashed, containers,
                   scopedFunctions, scopeState, nextFn, lock, trig, destroyPos,
                   addCount>>

\* ~FunctionScope calls remove(this) on every container of its list. On a
\* freed container that is a use after free: the memory may still read as
\* before and the destructor goes on, or the process dies.
DestroyScopeOf(s) ==
    /\ ~crashed
    /\ scopeState[s] = "alive"
    /\ \/ /\ crashed' = FALSE
          /\ scopes' = ScopesAfterDestroy(s)
          /\ containers' = [containers EXCEPT ![s] = <<>>]
          /\ scopedFunctions' = [scopedFunctions EXCEPT ![s] = <<>>]
          /\ scopeState' = [scopeState EXCEPT ![s] = "destroyed"]
          /\ addCount' = [c \in Containers, t \in Scopes |->
                             IF t = s THEN 0 ELSE addCount[c, t]]
       \/ /\ FreedContainersOf(s) # {}
          /\ crashed' = TRUE
          /\ UNCHANGED <<scopes, containers, scopedFunctions, scopeState, addCount>>
    /\ lastTrigger' = NoTrigger
    /\ triggerLog' = <<>>
    /\ UNCHANGED <<sysParams, ringVars, channelVars, callVars, pipeRest,
                   containerState, nextFn, lock,
                   trig, destroyPos>>

InitContainers == PipeInit(1, FifoCap, 0)

NextContainers ==
    \/ \E c \in Containers, s \in Scopes : AddToLive(c, s)
    \/ \E c \in Containers, a \in ArgValues : TriggerLive(c, a)
    \/ \E c \in Containers : DestroyContainer(c)
    \/ \E s \in Scopes : DestroyScopeOf(s)

SpecContainers == InitContainers /\ [][NextContainers]_vars

\* ------------------------------------------------------------- channels
\* JobSystem::addCallback: the channel's container is created on the first
\* call, then add() on it.
AddCallback(ch, s) ==
    /\ callbackMap' = callbackMap \cup {ch}
    /\ AddBody(ch, s)
    /\ lastTrigger' = NoTrigger
    /\ triggerLog' = <<>>
    /\ UNCHANGED <<sysParams, ringVars, lifeVars, jobChannel, callVars,
                   pipeRest, scopeState, lock, trig, destroyPos>>

\* JobSystem::pushJob(job, callback_id): the container is looked up in
\* callbackMap now (nullptr when the channel has none yet), then the job is
\* linked and pushed as by pushJob(job, callbacks, progressCallbacks).
PushJobToChannel(ch) ==
    LET callbacks == IF ch \in callbackMap THEN ch ELSE 0
        job == nextJob + 1
    IN  /\ nextJob < jobLimit
        /\ nextJob' = job
        /\ IF FifoAccepts(inputJobs)
           THEN /\ address' = [address EXCEPT ![job] = job]
                /\ callback' = [callback EXCEPT ![job] = PlainCallback]
                /\ scopedCallbacks' = [scopedCallbacks EXCEPT ![job] = callbacks]
                /\ jobChannel' = [jobChannel EXCEPT ![job] = ch]
                /\ inputJobs' = Append(inputJobs, job)
           ELSE UNCHANGED <<address, callback, scopedCallbacks, jobChannel, inputJobs>>
        /\ invoked' = {}
        /\ UNCHANGED <<sysParams, ringVars, lifeVars, callbackMap, callVars,
                       registryVars, priority, queuePosition, hasProgress,
                       prioritizedJobs, queueCounter, pool, progressCallbackFIFO,
                       finishedJobs, abort, runVars, ctl, ctlCalls, flushObs,
                       sysStopped>>

InitChannels == PipeInit(1, FifoCap, MaxChannelJobs)

NextChannels ==
    \/ \E ch \in Containers, s \in Scopes : AddCallback(ch, s)
    \/ \E ch \in Containers : PushJobToChannel(ch)
    \/ \E s \in Scopes : DestroyScope(s)
    \/ ProcessJobs
    \/ \E j \in JobIds : WorkerStart(j)
    \/ \E j \in JobIds : WorkerFinish(j)
    \/ \E j \in JobIds : WorkerPush(j)
    \/ TimerCallback

SpecChannels == InitChannels /\ [][NextChannels]_vars

\* ============================================== calls from several threads
\* LockFreeFifo::push is prepareToWrite (the write index is read), the
\* assignment to buffer[start1], and finishedWrite(1). A call made outside
\* criticalSection is two steps here: Enter constructs the job and reads the
\* index, Return stores and publishes. `seen` is the queue as the call read it.
PushCall(thread, queue, job, q, ch) ==
    [thread |-> thread, queue |-> queue, item |-> job, seen |-> q, channel |-> ch]

\* Another push stored an item between the two steps of call c.
Raced(c, q) == \E i \in 1..Len(q) : q[i] \notin SeqToSet(c.seen)

\* The slot the call read as free holds the last such item.
LastRacing(c, q) ==
    CHOOSE i \in 1..Len(q) :
        /\ q[i] \notin SeqToSet(c.seen)
        /\ \A k \in (i + 1)..Len(q) : q[k] \in SeqToSet(c.seen)

\* What two unsynchronised pushes on one slot index can leave behind: both
\* items (they did not overlap after all), or one handle assigned over the
\* other with the index published for it.
PushOutcomes == {"stored", "overwritten", "overwrites"}

OutcomePossible(c, q, o) == o = "stored" \/ (FifoAccepts(q) /\ Raced(c, q))

QueueAfterPush(c, q, o) ==
    IF ~FifoAccepts(q) \/ o = "overwritten" THEN q
    ELSE IF o = "stored" THEN Append(q, c.item)
    ELSE [q EXCEPT ![LastRacing(c, q)] = c.item]

\* The jobs whose handle is destroyed by the push: the refused one, or the one
\* assigned over.
LostByPush(c, q, o) ==
    IF ~FifoAccepts(q) \/ o = "overwritten" THEN {c.item}
    ELSE IF o = "stored" THEN {}
    ELSE {q[LastRacing(c, q)]}

\* pushJob called by producer p: linkSystem, jobSetup, and inputJobs.push
\* begins. Nothing is locked.
PushJobEnter(p) ==
    /\ \A c \in fifoCalls : c.thread # p
    /\ nextJob < jobLimit
    /\ nextJob' = nextJob + 1
    /\ priority' = [priority EXCEPT ![nextJob + 1] = "Normal"]
    /\ address' = [address EXCEPT ![nextJob + 1] = nextJob + 1]
    /\ callback' = [callback EXCEPT ![nextJob + 1] = PlainCallback]
    /\ fifoCalls' = fifoCalls \cup {PushCall(p, "inputJobs", nextJob + 1, inputJobs, 0)}
    /\ invoked' = {}
    /\ UNCHANGED <<sysParams, registryVars, ringVars, lifeVars, channelVars,
                   triggerCall, queuePosition, hasProgress, scopedCallbacks,
                   queueVars, pool, progressCallbackFIFO, finishedJobs, abort,
                   runVars, ctl, ctlCalls, flushObs, sysStopped>>

\* inputJobs.push stores and publishes, and pushJob returns.
PushJobReturn(p) ==
    \E c \in fifoCalls, o \in PushOutcomes :
        /\ c.thread = p
        /\ c.queue = "inputJobs"
        /\ OutcomePossible(c, inputJobs, o)
        /\ inputJobs' = QueueAfterPush(c, inputJobs, o)
        /\ ReleaseJobs(LostByPush(c, inputJobs, o))
        /\ fifoCalls' = fifoCalls \ {c}
        /\ invoked' = {}
        /\ UNCHANGED <<sysParams, registryVars, ringVars, lifeVars, channelVars,
                       triggerCall, nextJob, prioritizedJobs, queueCounter,
                       pool, progressCallbackFIFO, finishedJobs, abort,
                       runVars, ctl, ctlCalls, flushReturned, sysStopped>>

\* The threads that call triggerCallbacks: the message thread and one other.
TriggerThreads == {"message", "other"}

\* What triggerFunctions() invokes when the message thread calls it directly.
DirectTrigger(ch) ==
    [job |-> 0, kind |-> "trigger", thread |-> "message", at |-> 1,
     parts |-> <<"triggerFunctions">>,
     fns |-> TriggerInvocations(ch, scopes[ch], 0), value |-> 0]

\* triggerCallbacks(id), lines 149-156 and 138-139: the channel is not in
\* callbackMap, callbacks is nullptr and the call returns.
TriggerCallbacksNoContainer(ch, th) ==
    /\ ch \notin callbackMap
    /\ triggerCall.n < MaxTriggerCalls
    /\ \A c \in fifoCalls : c.thread # th
    /\ triggerCall' = [n |-> triggerCall.n + 1, channel |-> ch, thread |-> th]
    /\ invoked' = {}
    /\ UNCHANGED <<sysParams, registryVars, ringVars, lifeVars, channelVars,
                   fifoCalls, jobVars, queueVars, pool, progressCallbackFIFO,
                   finishedJobs, abort, runVars, ctl, ctlCalls, flushObs,
                   sysStopped>>

\* Lines 140-141: on the message thread the container is triggered at once.
TriggerCallbacksOnMessageThread(ch) ==
    /\ ch \in callbackMap
    /\ triggerCall.n < MaxTriggerCalls
    /\ triggerCall' = [n |-> triggerCall.n + 1, channel |-> ch, thread |-> "message"]
    /\ invoked' = {DirectTrigger(ch)}
    /\ UNCHANGED <<sysParams, registryVars, ringVars, lifeVars, channelVars,
                   fifoCalls, jobVars, queueVars, pool, progressCallbackFIFO,
                   finishedJobs, abort, runVars, ctl, ctlCalls, flushObs,
                   sysStopped>>

\* Lines 142-146 on another thread: a Job with an empty action and the
\* triggering closure as its callback is made, and finishedJobs.push begins,
\* without criticalSection.
TriggerCallbacksEnter(ch) ==
    /\ ch \in callbackMap
    /\ triggerCall.n < MaxTriggerCalls
    /\ \A c \in fifoCalls : c.thread # "other"
    /\ nextJob < jobLimit
    /\ nextJob' = nextJob + 1
    /\ address' = [address EXCEPT ![nextJob + 1] = nextJob + 1]
    /\ callback' = [callback EXCEPT ![nextJob + 1] = TriggerClosure(ch)]
    /\ fifoCalls' = fifoCalls \cup {PushCall("other", "finishedJobs", nextJob + 1, finishedJobs, ch)}
    /\ invoked' = {}
    /\ UNCHANGED <<sysParams, registryVars, ringVars, lifeVars, channelVars,
                   triggerCall, priority, queuePosition, hasProgress,
                   scopedCallbacks, queueVars, pool, progressCallbackFIFO,
                   finishedJobs, abort, runVars, ctl, ctlCalls, flushObs,
                   sysStopped>>

\* finishedJobs.push stores and publishes; its result is not looked at and
\* triggerCallbacks returns.
TriggerCallbacksReturn ==
    \E c \in fifoCalls, o \in PushOutcomes :
        /\ c.thread = "other"
        /\ c.queue = "finishedJobs"
        /\ OutcomePossible(c, finishedJobs, o)
        /\ finishedJobs' = QueueAfterPush(c, finishedJobs, o)
        /\ ReleaseJobs(LostByPush(c, finishedJobs, o))
        /\ fifoCalls' = fifoCalls \ {c}
        /\ triggerCall' = [n |-> triggerCall.n + 1, channel |-> c.channel, thread |-> "other"]
        /\ invoked' = {}
        /\ UNCHANGED <<sysParams, registryVars, ringVars, lifeVars, channelVars,
                       nextJob, queueVars, pool, progressCallbackFIFO, abort,
                       runVars, ctl, ctlCalls, flushReturned, sysStopped>>

\* A pool of one thread, two producers, a thread calling triggerCallbacks, a
\* thread calling flush(), and callbacks registered on the channels.
InitQueues == PipeInit(1, FifoCap, MaxQueueJobs)

NextQueues ==
    \/ \E ch \in Containers : AddCallback(ch, 1)
    \/ \E p \in Producers : PushJobEnter(p)
    \/ \E p \in Producers : PushJobReturn(p)
    \/ \E ch \in Containers, th \in TriggerThreads : TriggerCallbacksNoContainer(ch, th)
    \/ \E ch \in Containers : TriggerCallbacksOnMessageThread(ch)
    \/ \E ch \in Containers : TriggerCallbacksEnter(ch)
    \/ TriggerCallbacksReturn
    \/ ProcessJobs
    \/ \E j \in JobIds : WorkerStart(j)
    \/ \E j \in JobIds : WorkerFinish(j)
    \/ \E j \in JobIds : WorkerPush(j)
    \/ TimerCallback
    \/ FlushBegin
    \/ RemoveAllJobsDone
    \/ RemoveAllJobsTimeout

SpecQueues == InitQueues /\ [][NextQueues]_vars

\* ==================================================== LockFreeFifo, by slot
\* juce::AbstractFifo::getNumReady, which getNumItems returns.
NumReady ==
    IF validEnd >= validStart THEN validEnd - validStart
    ELSE RingSize - (validStart - validEnd)

\* Mutant: prepareToWrite handing out the last free slot as well.
WriteSizeUsesLastSlot ==
    LET freeSpace == IF validEnd >= validStart
                     THEN RingSize - (validEnd - validStart)
                     ELSE validStart - validEnd
    IN  IF freeSpace <= 0 THEN 0 ELSE 1

\* size1 + size2 of fifo.prepareToWrite(1, ...): one slot is always kept free.
WriteSize ==
    LET freeSpace == IF validEnd >= validStart
                     THEN RingSize - (validEnd - validStart)
                     ELSE validStart - validEnd
    IN  IF freeSpace - 1 <= 0 THEN 0 ELSE 1

\* size1 + size2 of fifo.prepareToRead(1, ...).
ReadSize == IF NumReady <= 0 THEN 0 ELSE 1

\* finishedWrite / finishedRead: the position moves on and wraps.
Advance(i) == IF i + 1 >= RingSize THEN i + 1 - RingSize ELSE i + 1

\* LockFreeFifo::push.
LockFreeFifoPush(item) ==
    IF WriteSize <= 0
    THEN /\ lastCall' = [op |-> "push", item |-> item, result |-> 0]
         /\ UNCHANGED <<buffer, validStart, validEnd>>
    ELSE /\ buffer' = [buffer EXCEPT ![validEnd] = item]
         /\ validEnd' = Advance(validEnd)
         /\ lastCall' = [op |-> "push", item |-> item, result |-> 1]
         /\ UNCHANGED validStart

\* JobSystem::pushJob on this FIFO: a new job is pushed; when the push is
\* refused the unique_ptr parameter still owns the job and destroys it.
PushJobToFifo ==
    /\ pushes < MaxPushes
    /\ pushes' = pushes + 1
    /\ LockFreeFifoPush(pushes + 1)
    /\ dropped' = IF WriteSize <= 0 THEN dropped \cup {pushes + 1} ELSE dropped
    /\ UNCHANGED nonRingVars

\* LockFreeFifo::pop: nullptr when nothing is stored, else the item at the
\* read position is moved out of its slot.
LockFreeFifoPop ==
    /\ IF ReadSize <= 0
       THEN /\ lastCall' = [op |-> "pop", item |-> 0, result |-> 0]
            /\ UNCHANGED <<buffer, validStart, validEnd>>
       ELSE /\ lastCall' = [op |-> "pop", item |-> 0, result |-> buffer[validStart]]
            /\ buffer' = [buffer EXCEPT ![validStart] = 0]
            /\ validStart' = Advance(validStart)
            /\ UNCHANGED validEnd
    /\ UNCHANGED <<pushes, dropped, nonRingVars>>

\* LockFreeFifo::clear: fifo.reset(); the slots keep what they hold.
LockFreeFifoClear ==
    /\ validStart' = 0
    /\ validEnd' = 0
    /\ lastCall' = [op |-> "clear", item |-> 0, result |-> 0]
    /\ UNCHANGED <<buffer, pushes, dropped, nonRingVars>>

InitFifo == PipeInit(1, FifoCap, 0)

NextFifo ==
    \/ PushJobToFifo
    \/ LockFreeFifoPop
    \/ LockFreeFifoClear

SpecFifo == InitFifo /\ [][NextFifo]_vars

\* ================================================================ claims
\* The step in which processJobs adds job j to the pool.
Dispatches(j) == pool[j] = "none" /\ pool'[j] = "queued"

Pending == {j \in JobIds : Place(j) = "pending"}

\* C1: whenever processJobs dispatches a job, no job left in the priority
\* queue is greater under Job::operator< (none has a higher priority, and none
\* of the same priority a smaller queuePosition).
C1_DispatchFollowsJobOrder ==
    [][\A j \in JobIds :
          Dispatches(j) => \A k \in prioritizedJobs' : ~(JobLess(j, k))']_vars

\* C2: with a pool of one and the jobs A, B, C (Normal), D (Urgent) submitted
\* in that order, the dispatch order is D, A, B, C. Stated for the passes that
\* run once all four are submitted: the job dispatched is the first, in the
\* order D, A, B, C, of the jobs not dispatched yet.
ScenarioRank(j) == IF j = Len(ScenarioJobs) THEN 0 ELSE j

C2_ScenarioDispatchOrder ==
    [][\A j \in JobIds :
          (Dispatches(j) /\ nextJob = Len(ScenarioJobs))
              => \A k \in Pending \ {j} : ScenarioRank(j) < ScenarioRank(k)]_vars

\* C6: when flush() returns, no job that was in the pipe when it was called
\* is still pending or in flight, and a job that was pending then is never
\* run afterwards.
C6_FlushEmptiesThePipe ==
    [][/\ (~flushReturned /\ flushReturned')
            => \A j \in JobIds : atFlush[j] # "none" => (Place(j))' = "none"
       /\ \A j \in JobIds :
            (flushReturned /\ atFlush[j] = "pending") => pool'[j] # "action"]_vars

\* The completion callback of job j is invoked by this step.
CallbackRuns(j) == \E e \in invoked' : e.kind = "callback" /\ e.job = j

\* C7: a job whose action was executing when flush() was called never has its
\* completion callback invoked after that flush() has returned.
C7_NoCallbackAfterFlush ==
    [][\A j \in JobIds :
          (flushReturned /\ atFlush[j] = "action") => ~CallbackRuns(j)]_vars

\* C8: a job that was in the pool, not yet pushed, when the abort flag was set
\* is never pushed onto finishedJobs and never has a callback invoked.
C8_AbortedJobNotPushed ==
    [][\A j \in JobIds :
          atFlush[j] \in {"action", "checked"}
              => /\ j \notin SeqToSet(finishedJobs')
                 /\ ~CallbackRuns(j)]_vars

\* No scheduling pass and no drain step happen in this step.
NoPassNoDrain ==
    /\ prioritizedJobs' = prioritizedJobs
    /\ Len(inputJobs') >= Len(inputJobs)
    /\ \A j \in JobIds : ~Dispatches(j)
    /\ invoked' = {}

\* C9: after stopSystem() has returned the abort flag is set and stays set,
\* no scheduling pass runs and the drain step delivers nothing, also when
\* pushJob is called afterwards.
C9_StoppedForGood ==
    [][/\ sysStopped # "no" => (abort /\ NoPassNoDrain)
       /\ sysStopped' # "no" => abort']_vars

\* C9 as amended: the abort flag is set when stopSystem() returns and stays
\* set until flush() or stopSystem() is called again; from the return of
\* stopSystem() on no scheduling pass runs and no drain step is started.
C9_StoppedUntilNextFlush ==
    [][/\ sysStopped = "yes" => abort
       /\ sysStopped' = "yes" => abort'
       /\ sysStopped # "no" => NoPassNoDrain]_vars

\* A job submitted to a stopped system waits in the input FIFO.
C9_Witness ==
    /\ sysStopped = "yes"
    /\ abort
    /\ inputJobs # <<>>
    /\ ~threadRunning /\ ~timerRunning

\* C10: every completion callback and every progress closure is run by the
\* message thread; no worker or scheduler step runs one.
C10_CallbacksOnMessageThread ==
    \A e \in invoked : e.thread = "message"

\* One drain step has run a progress closure and a completion callback.
C10_Witness ==
    /\ \E e \in invoked : e.kind = "progress" /\ e.thread = "message"
    /\ \E e \in invoked : e.kind = "callback" /\ e.thread = "message"

\* The entries scope s holds for container c.
EntriesOf(c, s) == SelectSeq(scopedFunctions[s], LAMBDA e : e.container = c)

\* How often the last trigger invoked callback f with argument a.
TimesInvoked(f, a) ==
    Cardinality({i \in 1..Len(triggerLog) :
                    triggerLog[i].function = f /\ triggerLog[i].args = a})

\* Scope s is in the scope list of container c.
InScopeList(c, s) == s \in SeqToSet(scopes[c])

NoDuplicates(list) ==
    \A i, k \in 1..Len(list) : list[i] = list[k] => i = k

\* C3: once the destruction of a FunctionScope has begun, triggerFunctions
\* invokes no callback of that scope, whatever the interleaving of the
\* destroying thread with the threads calling add and triggerFunctions.
C3_NoCallbackOnceDestructionBegan ==
    [][Len(triggerLog') > Len(triggerLog)
          => scopeState[triggerLog'[Len(triggerLog')].scope] = "alive"]_vars

\* C4: one call of C.triggerFunctions(args) invokes every callback added to C
\* under a live scope registered with C exactly once, with args, and nothing
\* that was added through another container.
C4_TriggerInvokesOwnCallbacksOnce ==
    lastTrigger # NoTrigger =>
        LET c == lastTrigger.container
            a == lastTrigger.args
        IN  /\ \A s \in Scopes :
                  (scopeState[s] = "alive" /\ InScopeList(c, s)) =>
                      \A i \in 1..Len(scopedFunctions[s]) :
                          TimesInvoked(scopedFunctions[s][i].function, a)
                              = IF scopedFunctions[s][i].container = c THEN 1 ELSE 0
            /\ \A i \in 1..Len(triggerLog) :
                  /\ triggerLog[i].args = a
                  /\ \E k \in 1..Len(scopedFunctions[triggerLog[i].scope]) :
                        scopedFunctions[triggerLog[i].scope][k]
                            = [container |-> c, function |-> triggerLog[i].function]

\* A trigger of a container whose scope is also registered with another
\* container and holds callbacks of both.
C4_Witness ==
    /\ lastTrigger # NoTrigger
    /\ \E s \in Scopes :
          /\ scopeState[s] = "alive"
          /\ \A c \in Containers : InScopeList(c, s)
          /\ Len(EntriesOf(lastTrigger.container, s)) >= 2
          /\ Len(scopedFunctions[s]) > Len(EntriesOf(lastTrigger.container, s))
    /\ Len(triggerLog) >= 2

\* C5: registration is duplicate-free and mutual, and k calls of add for one
\* scope and container leave one registration and k callback entries, so that
\* a trigger invokes k callbacks for that scope.
C5_RegistrationMutualNoDuplicates ==
    /\ \A c \in Containers : NoDuplicates(scopes[c])
    /\ \A s \in Scopes : NoDuplicates(containers[s])
    /\ \A c \in Containers, s \in Scopes :
          scopeState[s] = "alive" =>
              /\ InScopeList(c, s) <=> (\E i \in 1..Len(containers[s]) : containers[s][i] = c)
              /\ InScopeList(c, s) <=> addCount[c, s] > 0
              /\ Len(EntriesOf(c, s)) = addCount[c, s]
              /\ lastTrigger.container = c =>
                    Cardinality({i \in 1..Len(triggerLog) : triggerLog[i].scope = s})
                        = addCount[c, s]

\* A scope added twice to one container, another scope destroyed, and a
\* trigger of that container.
C5_Witness ==
    /\ \E c \in Containers, s \in Scopes :
          /\ scopeState[s] = "alive"
          /\ addCount[c, s] >= 2
          /\ lastTrigger.container = c
          /\ Len(triggerLog) >= 2
    /\ \E s \in Scopes : scopeState[s] = "destroyed"

\* The jobs the worker pool holds, queued or running.
InPool == {j \in JobIds : pool[j] # "none"}

\* C15: the worker pool never holds more jobs than it has threads; a pass of
\* processJobs dispatches at most one job, and only when the pool held fewer
\* jobs than threads.
C15_PoolNeverOversubscribed ==
    [][/\ Cardinality(InPool) <= numThreads
       /\ Cardinality(InPool') <= numThreads
       /\ Cardinality({j \in JobIds : Dispatches(j)}) <= 1
       /\ \A j \in JobIds : Dispatches(j) => Cardinality(InPool) < numThreads]_vars

\* Every pool thread is busy and a job waits in the priority queue.
C15_Witness ==
    /\ Cardinality(InPool) = numThreads
    /\ prioritizedJobs # {}
    /\ \E j \in JobIds : pool[j] = "action"

\* Job j has left the input FIFO and still exists.
Drained(j) == Place(j) # "none" /\ j \notin SeqToSet(inputJobs)

\* C19: queuePosition is written once, when processJobs moves the job from the
\* input FIFO into the priority queue, and never afterwards; jobs that are in
\* the priority queue together have distinct positions, the one drained
\* earlier the smaller, also after the counter was reset to zero. (Jobs are
\* numbered in the order they enter, and so leave, the input FIFO.)
C19_QueuePositionWrittenOnce ==
    [][/\ \A j \in SeqToSet(inputJobs) : queuePosition[j] = 0
       /\ \A j \in JobIds :
             (Drained(j) /\ (Place(j))' # "none") => queuePosition'[j] = queuePosition[j]
       /\ \A j, k \in prioritizedJobs' :
             j < k => queuePosition'[j] < queuePosition'[k]
       /\ (queueCounter' = 0 /\ queueCounter # 0) => prioritizedJobs' = {}]_vars

\* The counter was reset after job A was dispatched alone; two later jobs are
\* in the priority queue with the positions 0 and 1.
C19_Witness ==
    /\ 1 \notin prioritizedJobs /\ 1 \notin SeqToSet(inputJobs)
    /\ \E j, k \in prioritizedJobs :
          /\ j < k
          /\ queuePosition[j] = 0
          /\ queuePosition[k] = 1

\* Job j has been constructed and its Job object is gone.
Gone(j) == j <= nextJob /\ Place(j) = "none"

\* C16: without flush()/stopSystem() and without a FIFO overflowing, under
\* fair scheduling every submitted job is eventually dispatched and its
\* completion callback eventually invoked, and that exactly once: a job is
\* dispatched from the priority queue only, delivered from finishedJobs only,
\* destroyed by its delivery and never seen again.
C16_EveryJobDeliveredOnce ==
    /\ \A j \in JobIds :
          (j \in SeqToSet(inputJobs)) ~> (pool[j] = "queued")
    /\ \A j \in JobIds :
          (j \in SeqToSet(inputJobs)) ~> (\E e \in invoked : e.kind = "callback" /\ e.job = j)
    /\ [][\A j \in JobIds :
             /\ Dispatches(j) => (Place(j) = "pending" /\ j \notin prioritizedJobs')
             /\ CallbackRuns(j) => (j \in SeqToSet(finishedJobs) /\ Gone(j)')
             /\ Cardinality({e \in invoked' : e.kind = "callback" /\ e.job = j}) <= 1
             /\ Gone(j) => Gone(j)']_vars

\* All the jobs were submitted, none was refused, and all are delivered and gone.
C16_Witness ==
    /\ nextJob = jobLimit
    /\ jobLimit >= 2
    /\ \A j \in 1..nextJob : Gone(j)
    /\ \E e \in invoked : e.kind = "callback"

\* A triggerFunctions call is under way, before and after this step.
Traversing == trig # NotTriggering /\ trig' # NotTriggering

\* C18: while a triggerFunctions call traverses its container's scope list
\* and a scope's callback entries, no add or remove, on this container or on
\* another one that shares the scope, changes the list or the entries being
\* traversed.
C18_NoMutationDuringTraversal ==
    [][Traversing =>
          /\ scopes'[trig.container] = scopes[trig.container]
          /\ trig.si <= Len(scopes[trig.container])
                => scopedFunctions'[TriggerScope] = scopedFunctions[TriggerScope]]_vars

\* The items the FIFO stores, oldest first, read off the slots between the
\* read and the write position.
Stored == (validEnd - validStart + RingSize) % RingSize
Contents == [i \in 1..Stored |-> buffer[(validStart + i - 1) % RingSize]]

\* C11: a push is refused only when the FIFO is full, and then changes
\* nothing; an accepted push appends its item; pop returns the empty value
\* when nothing is stored and else the oldest item; the FIFO never stores
\* more than its fixed size; a job whose push was refused never comes out of
\* the FIFO, so that it is never dispatched and no callback of it runs.
C11_FifoPushPop ==
    [][/\ Stored < RingSize /\ Stored' < RingSize
       /\ (lastCall'.op = "push" /\ lastCall'.result = 0)
             => (Stored = RingSize - 1 /\ Contents' = Contents /\ lastCall'.item \in dropped')
       /\ (lastCall'.op = "push" /\ lastCall'.result = 1)
             => (Stored < RingSize - 1 /\ Contents' = Append(Contents, lastCall'.item)
                 /\ lastCall'.item \notin dropped')
       /\ (lastCall'.op = "pop" /\ Stored = 0)
             => (lastCall'.result = 0 /\ Contents' = Contents)
       /\ (lastCall'.op = "pop" /\ Stored > 0)
             => (lastCall'.result = Head(Contents) /\ Contents' = Tail(Contents)
                 /\ lastCall'.result \notin dropped)]_vars

\* A job was refused by the full FIFO, and later pops have emptied the FIFO,
\* whose positions have wrapped around.
C11_Witness ==
    /\ dropped # {}
    /\ lastCall.op = "pop" /\ lastCall.result # 0
    /\ Stored = 0
    /\ validStart # 0
    /\ pushes = MaxPushes

\* What executeCallback of job j has to call, in order.
PartsExpected(j) ==
    SelectSeq(<<"jobCallback", "callback", "scopedCallbacks">>,
              LAMBDA x : \/ x = "jobCallback"
                         \/ x = "callback" /\ callback[j].set
                         \/ x = "scopedCallbacks" /\ scopedCallbacks[j] # 0)

\* C20: one drain step invokes every progress closure of the progress FIFO in
\* FIFO order, then executeCallback of every job of finishedJobs in FIFO
\* order, each once; executeCallback calls the jobCallback hook, then the
\* callback if set, then the container's callbacks if linked; both FIFOs are
\* empty when the step returns.
C20_DrainOrder ==
    [][invoked' # {} =>
          /\ Cardinality(invoked') = Len(progressCallbackFIFO) + Len(finishedJobs)
          /\ \A i \in 1..Len(progressCallbackFIFO) :
                \E e \in invoked' :
                    /\ e.at = i
                    /\ e.kind = "progress"
                    /\ e.value = progressCallbackFIFO[i].progress
          /\ \A i \in 1..Len(finishedJobs) :
                \E e \in invoked' :
                    /\ e.at = Len(progressCallbackFIFO) + i
                    /\ e.kind = "callback"
                    /\ e.job = finishedJobs[i]
                    /\ e.parts = PartsExpected(finishedJobs[i])
          /\ progressCallbackFIFO' = <<>>
          /\ finishedJobs' = <<>>]_vars

\* One drain step ran two progress closures with different values and then
\* two jobs, one of them with a callback and a container.
C20_Witness ==
    /\ Cardinality(invoked) = 4
    /\ \E e, f \in invoked :
          e.kind = "progress" /\ f.kind = "progress" /\ e.at < f.at /\ e.value > f.value
    /\ \E e, f \in invoked :
          /\ e.kind = "callback" /\ f.kind = "callback" /\ e.at < f.at /\ e.job > f.job
          /\ Len(e.parts) = 3 /\ Len(f.parts) = 1

\* This step runs ~FunctionScope of scope s (to its end, or into a crash).
ScopeDestructorRuns(s) ==
    scopeState[s] = "alive" /\ (scopeState'[s] = "destroyed" \/ crashed')

\* C14: once a container is destroyed no later operation accesses it; in
\* particular the destructor of a scope that was registered with it calls
\* remove() on live containers only.
C14_NoAccessToDestroyedContainer ==
    [][\A s \in Scopes : ScopeDestructorRuns(s) => FreedContainersOf(s) = {}]_vars

\* The functions registered on channel ch by live scopes.
RegisteredOn(ch) ==
    {f \in 1..MaxFns :
        \E s \in Scopes :
            /\ scopeState[s] = "alive"
            /\ \E i \in 1..Len(scopedFunctions[s]) :
                  scopedFunctions[s][i] = [container |-> ch, function |-> f]}

\* C12: when the completion of a job submitted with pushJob(job, channelId) is
\* delivered, every callback registered on that channel by a scope alive at
\* that time is invoked exactly once, whether the channel got its first
\* addCallback before or after the pushJob call.
C12_ChannelCallbacksDelivered ==
    [][\A e \in invoked' :
          (e.kind = "callback" /\ jobChannel[e.job] # 0) =>
              \A f \in RegisteredOn(jobChannel[e.job]) :
                  Cardinality({i \in 1..Len(e.fns) : e.fns[i].function = f}) = 1]_vars

\* The queue a push call is made on.
QueueOf(c) == IF c.queue = "inputJobs" THEN inputJobs ELSE finishedJobs
QueueOfNext(c) == IF c.queue = "inputJobs" THEN inputJobs' ELSE finishedJobs'

\* C17: each bounded queue has one writer at a time: no two push calls on
\* one queue are in progress together, no worker pushes on and no flush()
\* clears a queue while another thread's push on it is in progress; and a
\* push the queue has room for leaves its item behind every item already
\* there, none of them lost.
C17_OneWriterPerQueue ==
    /\ [](\A c \in fifoCalls, d \in fifoCalls : c.queue = d.queue => c = d)
    /\ [][/\ (\E j \in JobIds : pool[j] = "checked" /\ pool'[j] = "none")
              => \A c \in fifoCalls : c.queue # "finishedJobs"
          /\ (ctl.pc = "wait" /\ ctl'.pc # "wait")
              => \A c \in fifoCalls : c.queue # "finishedJobs"
          /\ \A c \in fifoCalls \ fifoCalls' :
                FifoAccepts(QueueOf(c)) => QueueOfNext(c) = Append(QueueOf(c), c.item)]_vars

\* C13: a triggerCallbacks call on a channel without a container invokes
\* nothing and enqueues nothing; on the message thread it invokes the
\* channel's callbacks before it returns and enqueues nothing; on another
\* thread it invokes nothing and, the completion queue having room, leaves
\* exactly one job on it whose callback triggers the channel; and the drain
\* step runs such a job's callbacks on the message thread.
C13_TriggerCallbacks ==
    [][/\ triggerCall'.n # triggerCall.n =>
            LET ch == triggerCall'.channel
                th == triggerCall'.thread
            IN  /\ ch \notin callbackMap =>
                      /\ invoked' = {}
                      /\ finishedJobs' = finishedJobs
                      /\ fifoCalls' = fifoCalls
                /\ (ch \in callbackMap /\ th = "message") =>
                      /\ finishedJobs' = finishedJobs
                      /\ \E e \in invoked' :
                            /\ invoked' = {e}
                            /\ e.thread = "message"
                            /\ e.fns = TriggerInvocations(ch, scopes[ch], 0)
                /\ (ch \in callbackMap /\ th = "other" /\ FifoAccepts(finishedJobs)) =>
                      /\ invoked' = {}
                      /\ \E j \in JobIds :
                            /\ finishedJobs' = Append(finishedJobs, j)
                            /\ callback'[j] = TriggerClosure(ch)
       /\ \A e \in invoked' :
             (e.kind = "callback" /\ callback[e.job].triggers # 0) =>
                 /\ e.thread = "message"
                 /\ e.fns = TriggerInvocations(callback[e.job].triggers,
                                               scopes[callback[e.job].triggers], 0)]_vars

====
